---- MODULE Spec2Model ----
(***************************************************************************)
(* Model of frontend/src/App.js: the Cart Engine (CartProvider), the       *)
(* Session Store (AuthProvider), the hash router (App), the checkout       *)
(* submission (CheckoutModal.handleCheckout) and the payment-status        *)
(* polling machine (OrderSuccess.checkPaymentStatus).                      *)
(***************************************************************************)
EXTENDS Integers, Sequences, FiniteSets, TLC

(***************************************************************************)
(* Bounds of the model.                                                    *)
(***************************************************************************)
\* largest |quantity| a caller passes to addToCart / updateQuantity
MaxArg == 2
\* largest |quantity| a cart line is let to reach
MaxQty == 2
\* number of times the OrderSuccess screen is mounted in one page load
MaxMounts == 1
\* number of handleCheckout invocations that reach the network in one page load
MaxCheckouts == 2
\* longest delivery address typed into the checkout form
MaxAddrLen == 1

(***************************************************************************)
(* Program constants.                                                      *)
(***************************************************************************)
\* const maxAttempts = 5 (checkPaymentStatus)
maxAttempts == 5

\* JavaScript null
Null == "null"

\* The backend's restaurants and the menu items the screens hand to
\* addToCart: { id, name, price, restaurant_id } (MenuItem of GET .../menu).
Restaurants == {"R1", "R2"}
Menu ==
  { [id |-> 1, name |-> "n1", price |-> 10, restaurant_id |-> "R1"],
    [id |-> 2, name |-> "n2", price |-> 5,  restaurant_id |-> "R1"],
    [id |-> 3, name |-> "n3", price |-> 7,  restaurant_id |-> "R2"] }
FoodIds == { m.id : m \in Menu }
\* the items listed where the cart only has to be filled: one per restaurant
MenuShort == { m \in Menu : m.id # 2 }
QtyArgs == (0 - MaxArg)..MaxArg

VARIABLES
  \* CartProvider
  cart,               \* useState([]): sequence of cart lines
  currentRestaurant,  \* useState(null)
  \* AuthProvider
  user,               \* useState(null)
  authLoading,        \* useState(true)
  storage,            \* localStorage['zyppy_user']: absent, JSON of a user, or
                      \* a string JSON.parse rejects
  loginPending,       \* Login.handleSubmit awaits POST /auth/login
  \* App
  phase,              \* "init" before the mount effects ran, then "running";
                      \* "crashed" after an effect threw, "left" after the page
                      \* was left for the payment processor
  hash,               \* window.location.hash without '#'
  sessionId,          \* session_id of window.location.search, or Null
  currentView,        \* useState('home')
  restaurantId,       \* useState(null)
  \* CartSidebar / CheckoutModal
  showCheckout,       \* CartSidebar useState(false)
  address,            \* CheckoutModal useState(user?.address || '')
  ckLoading,          \* CheckoutModal useState(false)
  checkouts,          \* handleCheckout invocations, in order: where each
                      \* stands and whether its CheckoutModal is still mounted
  orderPosts,         \* number of POST /orders issued
  paymentPosts,       \* number of POST /payments/checkout issued
  alertMsg,           \* the last alert() shown, or Null
  \* OrderSuccess instances 1..osCount
  osCount,            \* number of OrderSuccess instances mounted so far
  osLive,             \* osLive[i]: instance i is still mounted
  paymentStatus,      \* paymentStatus[i]: useState('checking') of instance i
  pollPc,             \* where instance i's checkPaymentStatus chain stands
  attempts,           \* the attempts argument of the chain's current call
  queries,            \* number of GET /payments/status issued by the chain
  replies             \* the responses the chain has received, in order

cartVars == <<cart, currentRestaurant>>
authVars == <<user, authLoading, storage, loginPending>>
appVars  == <<phase, hash, sessionId, currentView, restaurantId>>
ckVars   == <<showCheckout, address, ckLoading, checkouts,
              orderPosts, paymentPosts, alertMsg>>
osVars   == <<osCount, osLive, paymentStatus, pollPc, attempts, queries, replies>>
vars     == <<cart, currentRestaurant, user, authLoading, storage, loginPending,
              phase, hash, sessionId, currentView, restaurantId,
              showCheckout, address, ckLoading, checkouts,
              orderPosts, paymentPosts, alertMsg,
              osCount, osLive, paymentStatus, pollPc, attempts, queries, replies>>

(***************************************************************************)
(* Cart Engine (CartProvider).                                             *)
(***************************************************************************)
\* Array.prototype.filter / map on a sequence of lines
RECURSIVE FilterOut(_, _)
FilterOut(lines, id) ==
  IF lines = <<>> THEN <<>>
  ELSE IF Head(lines).food_item_id # id
       THEN <<Head(lines)>> \o FilterOut(Tail(lines), id)
       ELSE FilterOut(Tail(lines), id)

HasLine(lines, id) == \E k \in 1..Len(lines) : lines[k].food_item_id = id

\* the updater without the look-up of an existing line
addToCartUpdaterAlwaysAppend(prevCart, foodItem, quantity) ==
  Append(prevCart, [food_item_id  |-> foodItem.id,
                    quantity      |-> quantity,
                    name          |-> foodItem.name,
                    price         |-> foodItem.price,
                    restaurant_id |-> foodItem.restaurant_id])

\* the functional updater of addToCart's setCart(prevCart => ...)
addToCartUpdater(prevCart, foodItem, quantity) ==
  IF HasLine(prevCart, foodItem.id)
  THEN [k \in 1..Len(prevCart) |->
          IF prevCart[k].food_item_id = foodItem.id
          THEN [prevCart[k] EXCEPT !.quantity = prevCart[k].quantity + quantity]
          ELSE prevCart[k]]
  ELSE Append(prevCart, [food_item_id  |-> foodItem.id,
                         quantity      |-> quantity,
                         name          |-> foodItem.name,
                         price         |-> foodItem.price,
                         restaurant_id |-> foodItem.restaurant_id])

\* the functional updater of removeFromCart
removeFromCartUpdater(prevCart, foodItemId) == FilterOut(prevCart, foodItemId)

\* the functional updater of updateQuantity (its quantity > 0 branch)
updateQuantityUpdater(prevCart, foodItemId, quantity) ==
  [k \in 1..Len(prevCart) |->
     IF prevCart[k].food_item_id = foodItemId
     THEN [prevCart[k] EXCEPT !.quantity = quantity]
     ELSE prevCart[k]]

\* cart.reduce((total, item) => total + item.price * item.quantity, 0)
RECURSIVE Reduce(_, _)
Reduce(lines, total) ==
  IF lines = <<>> THEN total
  ELSE Reduce(Tail(lines), total + Head(lines).price * Head(lines).quantity)

RECURSIVE ReducePriceOnly(_, _)
ReducePriceOnly(lines, total) ==
  IF lines = <<>> THEN total
  ELSE ReducePriceOnly(Tail(lines), total + Head(lines).price)

getCartTotalNoQuantity(c) == ReducePriceOnly(c, 0)

getCartTotal(c) == Reduce(c, 0)

QtyInRange(lines) ==
  \A k \in 1..Len(lines) :
     lines[k].quantity <= MaxQty /\ lines[k].quantity >= 0 - MaxQty

\* addToCart with the "different restaurant" reset left out
AddToCartNoReset(foodItem, quantity) ==
  /\ cart' = addToCartUpdater(cart, foodItem, quantity)
  /\ QtyInRange(cart')
  /\ currentRestaurant' = foodItem.restaurant_id

\* addToCart(foodItem, quantity = 1): setCart([]) when the restaurant
\* differs, setCurrentRestaurant, then the queued updater runs on the result
AddToCart(foodItem, quantity) ==
  /\ LET base == IF currentRestaurant # Null
                    /\ currentRestaurant # foodItem.restaurant_id
                 THEN <<>> ELSE cart
     IN  cart' = addToCartUpdater(base, foodItem, quantity)
  /\ QtyInRange(cart')
  /\ currentRestaurant' = foodItem.restaurant_id

RemoveFromCart(foodItemId) ==
  /\ cart' = removeFromCartUpdater(cart, foodItemId)
  /\ UNCHANGED currentRestaurant

\* updateQuantity whose floor test lets quantity 0 through
UpdateQuantityStrictFloor(foodItemId, quantity) ==
  /\ IF quantity < 0
     THEN cart' = removeFromCartUpdater(cart, foodItemId)
     ELSE cart' = updateQuantityUpdater(cart, foodItemId, quantity)
  /\ UNCHANGED currentRestaurant

UpdateQuantity(foodItemId, quantity) ==
  /\ IF quantity <= 0
     THEN cart' = removeFromCartUpdater(cart, foodItemId)
     ELSE cart' = updateQuantityUpdater(cart, foodItemId, quantity)
  /\ UNCHANGED currentRestaurant

\* the two state updates of clearCart
clearCartEffect ==
  /\ cart' = <<>>
  /\ currentRestaurant' = Null

ClearCart == clearCartEffect

(***************************************************************************)
(* App: which screen is rendered, and the hash router.                     *)
(***************************************************************************)
\* Session records the backend's login endpoint returns: { id, ..., address? }
\* (address is a string of characters, '' when the record has none)
Users == { [id |-> "u1", address |-> <<"x">>] }
\* user === null
NoUser == [id |-> Null, address |-> <<>>]

\* Navigation tokens, split at '/': '' , 'restaurant/R1', 'orders', ...
Tokens == { <<>>, <<"restaurant", "R1">>, <<"restaurant", "R2">>,
            <<"orders">>, <<"order-success">>, <<"bogus">> }

\* the tokens a page with OrderSuccess is navigated by: one for each screen
\* but MyOrders, which mounts nothing of the cart or the polling
TokensPoll == { t \in Tokens : t \notin {<<"orders">>, <<"bogus">>} }
\* the tokens a page with a checkout is navigated by: one for each screen
\* but OrderSuccess
TokensCheckout == { t \in Tokens : t \notin {<<"order-success">>, <<"bogus">>} }

\* handleHashChange: the view and the restaurant id a token selects
\* (restaurantId is set only by restaurant/<id> tokens)
ResolveView(token) ==
  IF Len(token) >= 2 /\ token[1] = "restaurant" THEN "restaurant"
  ELSE IF token = <<"orders">> THEN "orders"
  ELSE IF token = <<"order-success">> THEN "order-success"
  ELSE "home"

ResolveRestaurantId(token, old) ==
  IF Len(token) >= 2 /\ token[1] = "restaurant" THEN token[2] ELSE old

\* App's render without the "if (!user)" branch
ScreenNoGate(ph, ld, u, view) ==
  IF ph # "running" THEN "blank"
  ELSE IF ld THEN "spinner"
  ELSE view

\* App's render: spinner while loading, Login without a user, else the view
Screen(ph, ld, u, view) ==
  IF ph # "running" THEN "blank"
  ELSE IF ld THEN "spinner"
  ELSE IF u = NoUser THEN "login"
  ELSE view

Shown == Screen(phase, authLoading, user, currentView)

\* the CheckoutModal overlay is rendered by a non-empty CartSidebar
ModalOpen == Shown = "restaurant" /\ showCheckout /\ cart # <<>>

(***************************************************************************)
(* OrderSuccess: the payment-status polling machine.                       *)
(***************************************************************************)
Instances == 1..MaxMounts
\* outcomes of GET /payments/status/{session_id}: a body
\* { payment_status, status }, or a transport failure (axios throws)
StatusBodies ==
  [ok : {TRUE}, payment_status : {"paid", "unpaid"}, status : {"open", "expired"}]
Failure == [ok |-> FALSE, payment_status |-> "none", status |-> "none"]
Replies == StatusBodies \cup {Failure}
Unresolved == [ok |-> TRUE, payment_status |-> "unpaid", status |-> "open"]
Terminal == {"success", "failed", "timeout", "error"}

\* setPaymentStatus on instance i: React drops the update of an unmounted
\* component
setPaymentStatus(i, live, s) ==
  paymentStatus' = IF live THEN [paymentStatus EXCEPT ![i] = s] ELSE paymentStatus

\* checkPaymentStatus with maxAttempts + 1 in place of maxAttempts
checkPaymentStatusOffByOne(i, live, att) ==
  /\ attempts' = [attempts EXCEPT ![i] = att]
  /\ IF att >= maxAttempts + 1
     THEN /\ setPaymentStatus(i, live, "timeout")
          /\ pollPc' = [pollPc EXCEPT ![i] = "done"]
          /\ UNCHANGED queries
     ELSE /\ queries' = [queries EXCEPT ![i] = @ + 1]
          /\ pollPc' = [pollPc EXCEPT ![i] = "awaiting"]
          /\ paymentStatus' = paymentStatus

\* checkPaymentStatus(sessionId, attempts) up to its await: the attempts
\* check, then the GET is issued
checkPaymentStatus(i, live, att) ==
  /\ attempts' = [attempts EXCEPT ![i] = att]
  /\ IF att >= maxAttempts
     THEN /\ setPaymentStatus(i, live, "timeout")
          /\ pollPc' = [pollPc EXCEPT ![i] = "done"]
          /\ UNCHANGED queries
     ELSE /\ queries' = [queries EXCEPT ![i] = @ + 1]
          /\ pollPc' = [pollPc EXCEPT ![i] = "awaiting"]
          /\ paymentStatus' = paymentStatus

\* the mount effect with the clearCart() call left out
MountOrderSuccessNoClear ==
  /\ osCount < MaxMounts
  /\ osCount' = osCount + 1
  /\ osLive' = [osLive EXCEPT ![osCount + 1] = TRUE]
  /\ UNCHANGED replies
  /\ UNCHANGED cartVars
  /\ IF sessionId # Null
     THEN checkPaymentStatus(osCount + 1, TRUE, 0)
     ELSE UNCHANGED <<paymentStatus, pollPc, attempts, queries>>

\* the mount of a new OrderSuccess instance and its effect: with a
\* session_id, checkPaymentStatus(sessionId) and then clearCart()
MountOrderSuccess ==
  /\ osCount < MaxMounts
  /\ osCount' = osCount + 1
  /\ osLive' = [osLive EXCEPT ![osCount + 1] = TRUE]
  /\ UNCHANGED replies
  /\ IF sessionId # Null
     THEN /\ checkPaymentStatus(osCount + 1, TRUE, 0)
          /\ clearCartEffect
     ELSE /\ UNCHANGED <<paymentStatus, pollPc, attempts, queries>>
          /\ UNCHANGED cartVars

\* the unmount of the OrderSuccess instance: the effect returns no cleanup
UnmountOrderSuccess ==
  /\ osLive' = [i \in Instances |-> FALSE]
  /\ UNCHANGED <<osCount, paymentStatus, pollPc, attempts, queries, replies>>

\* the continuation of checkPaymentStatus after the await, with the returns
\* after setPaymentStatus left out
OnStatusReplyFallThrough(i, r) ==
  /\ replies' = [replies EXCEPT ![i] = Append(@, r)]
  /\ UNCHANGED <<osCount, osLive, attempts, queries>>
  /\ IF ~r.ok
     THEN /\ setPaymentStatus(i, osLive[i], "error")
          /\ pollPc' = [pollPc EXCEPT ![i] = "done"]
     ELSE /\ IF r.payment_status = "paid"
             THEN setPaymentStatus(i, osLive[i], "success")
             ELSE IF r.status = "expired"
                  THEN setPaymentStatus(i, osLive[i], "failed")
                  ELSE paymentStatus' = paymentStatus
          /\ pollPc' = [pollPc EXCEPT ![i] = "scheduled"]

\* the continuation with the catch block scheduling a retry
OnStatusReplyRetryOnError(i, r) ==
  /\ replies' = [replies EXCEPT ![i] = Append(@, r)]
  /\ UNCHANGED <<osCount, osLive, attempts, queries>>
  /\ IF ~r.ok
     THEN /\ paymentStatus' = paymentStatus
          /\ pollPc' = [pollPc EXCEPT ![i] = "scheduled"]
     ELSE IF r.payment_status = "paid"
     THEN /\ setPaymentStatus(i, osLive[i], "success")
          /\ pollPc' = [pollPc EXCEPT ![i] = "done"]
     ELSE IF r.status = "expired"
     THEN /\ setPaymentStatus(i, osLive[i], "failed")
          /\ pollPc' = [pollPc EXCEPT ![i] = "done"]
     ELSE /\ paymentStatus' = paymentStatus
          /\ pollPc' = [pollPc EXCEPT ![i] = "scheduled"]

\* the continuation with the two tests in the other order
OnStatusReplyExpiredFirst(i, r) ==
  /\ replies' = [replies EXCEPT ![i] = Append(@, r)]
  /\ UNCHANGED <<osCount, osLive, attempts, queries>>
  /\ IF ~r.ok
     THEN /\ setPaymentStatus(i, osLive[i], "error")
          /\ pollPc' = [pollPc EXCEPT ![i] = "done"]
     ELSE IF r.status = "expired"
     THEN /\ setPaymentStatus(i, osLive[i], "failed")
          /\ pollPc' = [pollPc EXCEPT ![i] = "done"]
     ELSE IF r.payment_status = "paid"
     THEN /\ setPaymentStatus(i, osLive[i], "success")
          /\ pollPc' = [pollPc EXCEPT ![i] = "done"]
     ELSE /\ paymentStatus' = paymentStatus
          /\ pollPc' = [pollPc EXCEPT ![i] = "scheduled"]

\* the continuation of checkPaymentStatus after the await: the response r
\* (or the thrown transport failure) is handled
OnStatusReply(i, r) ==
  /\ replies' = [replies EXCEPT ![i] = Append(@, r)]
  /\ UNCHANGED <<osCount, osLive, attempts, queries>>
  /\ IF ~r.ok
     THEN /\ setPaymentStatus(i, osLive[i], "error")
          /\ pollPc' = [pollPc EXCEPT ![i] = "done"]
     ELSE IF r.payment_status = "paid"
     THEN /\ setPaymentStatus(i, osLive[i], "success")
          /\ pollPc' = [pollPc EXCEPT ![i] = "done"]
     ELSE IF r.status = "expired"
     THEN /\ setPaymentStatus(i, osLive[i], "failed")
          /\ pollPc' = [pollPc EXCEPT ![i] = "done"]
     ELSE \* setTimeout(() => checkPaymentStatus(sessionId, attempts + 1), 2000)
          /\ paymentStatus' = paymentStatus
          /\ pollPc' = [pollPc EXCEPT ![i] = "scheduled"]

\* the status request of instance i completes
StatusReply(i, r) ==
  /\ phase = "running"
  /\ pollPc[i] = "awaiting"
  /\ OnStatusReply(i, r)
  /\ UNCHANGED <<cartVars, authVars, appVars, ckVars>>

\* the 2000 ms timer of instance i fires
TimerFire(i) ==
  /\ phase = "running"
  /\ pollPc[i] = "scheduled"
  /\ checkPaymentStatus(i, osLive[i], attempts[i] + 1)
  /\ UNCHANGED <<osCount, osLive, replies>>
  /\ UNCHANGED <<cartVars, authVars, appVars, ckVars>>

(***************************************************************************)
(* Re-render after a handler changed what App shows: OrderSuccess and the  *)
(* RestaurantMenu subtree (CartSidebar, CheckoutModal) mount and unmount.  *)
(***************************************************************************)
DetachAll(cks) == [j \in 1..Len(cks) |-> [cks[j] EXCEPT !.attached = FALSE]]

Rerender ==
  LET old == Shown
      new == Screen(phase', authLoading', user', currentView')
  IN  /\ IF new = "order-success" /\ old # "order-success"
         THEN MountOrderSuccess
         ELSE IF old = "order-success" /\ new # "order-success"
         THEN UnmountOrderSuccess /\ UNCHANGED cartVars
         ELSE UNCHANGED <<osVars, cartVars>>
      /\ IF old = "restaurant" /\ new # "restaurant"
         THEN /\ showCheckout' = FALSE
              /\ address' = <<>>
              /\ ckLoading' = FALSE
              /\ checkouts' = DetachAll(checkouts)
         ELSE UNCHANGED <<showCheckout, address, ckLoading, checkouts>>
      /\ UNCHANGED <<orderPosts, paymentPosts>>

(***************************************************************************)
(* Session Store (AuthProvider), Login and the router's handlers.          *)
(***************************************************************************)
Absent == [kind |-> "absent", value |-> NoUser]
Malformed == [kind |-> "malformed", value |-> NoUser]
Stored(u) == [kind |-> "json", value |-> u]
StoredStates == {Absent, Malformed} \cup { Stored(u) : u \in Users }

\* the mount effects: App's initial handleHashChange(), then AuthProvider's
\* restore; JSON.parse throws on a malformed item, setLoading(false) is then
\* not reached and React unmounts the tree
Startup ==
  /\ phase = "init"
  /\ currentView' = ResolveView(hash)
  /\ restaurantId' = ResolveRestaurantId(hash, restaurantId)
  /\ IF storage.kind = "malformed"
     THEN /\ phase' = "crashed"
          /\ UNCHANGED <<user, authLoading>>
     ELSE /\ phase' = "running"
          /\ user' = IF storage.kind = "json" THEN storage.value ELSE NoUser
          /\ authLoading' = FALSE
  /\ UNCHANGED <<storage, loginPending, hash, sessionId, alertMsg>>
  /\ Rerender

\* Login.handleSubmit up to its await (an empty email returns at once)
LoginSubmit ==
  /\ Shown = "login"
  /\ ~loginPending
  /\ loginPending' = TRUE
  /\ UNCHANGED <<user, authLoading, storage>>
  /\ UNCHANGED <<cartVars, appVars, ckVars, osVars>>

\* POST /auth/login succeeded: login() sets and persists the user, then
\* onLogin() sets the view to 'home'; both updates are rendered together
LoginOk(u) ==
  /\ phase = "running"
  /\ loginPending
  /\ user' = u
  /\ storage' = Stored(u)
  /\ loginPending' = FALSE
  /\ currentView' = "home"
  /\ UNCHANGED <<authLoading, phase, hash, sessionId, restaurantId, alertMsg>>
  /\ Rerender

\* POST /auth/login failed: login() rethrows, handleSubmit alerts
LoginFail ==
  /\ phase = "running"
  /\ loginPending
  /\ loginPending' = FALSE
  /\ alertMsg' = "Login failed. Please try again."
  /\ UNCHANGED <<user, authLoading, storage>>
  /\ UNCHANGED <<showCheckout, address, ckLoading, checkouts, orderPosts, paymentPosts>>
  /\ UNCHANGED <<cartVars, appVars, osVars>>

\* the Logout button of Navigation
Logout ==
  /\ Shown \notin {"blank", "spinner", "login"}
  /\ ~ModalOpen
  /\ user' = NoUser
  /\ storage' = Absent
  /\ UNCHANGED <<authLoading, loginPending, appVars, alertMsg>>
  /\ Rerender

\* the hashchange listener
HashChange(token) ==
  /\ phase = "running"
  /\ token # hash
  /\ hash' = token
  /\ currentView' = ResolveView(token)
  /\ restaurantId' = ResolveRestaurantId(token, restaurantId)
  /\ UNCHANGED <<authVars, phase, sessionId, alertMsg>>
  /\ Rerender

\* the navigation started by an assignment to window.location.href commits:
\* the browser replaces the page, at a moment the script does not control
Unload ==
  /\ phase = "running"
  /\ \E j \in 1..Len(checkouts) : checkouts[j].pc = "redirected"
  /\ phase' = "left"
  /\ UNCHANGED <<hash, sessionId, currentView, restaurantId>>
  /\ UNCHANGED <<cartVars, authVars, ckVars, osVars>>

(***************************************************************************)
(* The cart operations as the screens call them.                           *)
(***************************************************************************)
\* RestaurantMenu is shown and not covered by the CheckoutModal overlay
MenuUsable == Shown = "restaurant" /\ ~ModalOpen

\* MenuItemCard: onClick={() => onAddToCart(item)}
ClickAddToCart(item) ==
  /\ MenuUsable
  /\ item.restaurant_id = restaurantId
  /\ AddToCart(item, 1)
  /\ UNCHANGED <<authVars, appVars, ckVars, osVars>>

(***************************************************************************)
(* The cart operations of the Cart Engine, with any arguments.             *)
(***************************************************************************)
AddItem(item, q) ==
  AddToCart(item, q) /\ UNCHANGED <<authVars, appVars, ckVars, osVars>>
RemoveItem(id) ==
  RemoveFromCart(id) /\ UNCHANGED <<authVars, appVars, ckVars, osVars>>
SetQuantity(id, q) ==
  UpdateQuantity(id, q) /\ UNCHANGED <<authVars, appVars, ckVars, osVars>>
Clear ==
  ClearCart /\ UNCHANGED <<authVars, appVars, ckVars, osVars>>

(***************************************************************************)
(* CartSidebar and CheckoutModal: the checkout submission.                 *)
(***************************************************************************)
Chars == {" ", "x"}
Addresses == UNION { [1..n -> Chars] : n \in 0..MaxAddrLen }
AddressAlert == "Please enter a delivery address"
CheckoutAlert == "Checkout failed. Please try again."

\* String.prototype.trim
RECURSIVE TrimLeft(_)
TrimLeft(str) ==
  IF str # <<>> /\ Head(str) = " " THEN TrimLeft(Tail(str)) ELSE str
RECURSIVE TrimRight(_)
TrimRight(str) ==
  IF str # <<>> /\ str[Len(str)] = " "
  THEN TrimRight(SubSeq(str, 1, Len(str) - 1)) ELSE str
Trim(str) == TrimRight(TrimLeft(str))

\* the test with the trim() left out
AddressMissingNoTrim(addr) == addr = <<>>

\* !address.trim()
AddressMissing(addr) == Trim(addr) = <<>>

\* Proceed to Checkout: setShowCheckout(true) mounts a CheckoutModal
OpenCheckout ==
  /\ MenuUsable
  /\ cart # <<>>
  /\ ~showCheckout
  /\ showCheckout' = TRUE
  /\ address' = user.address
  /\ ckLoading' = FALSE
  /\ UNCHANGED <<checkouts, orderPosts, paymentPosts, alertMsg>>
  /\ UNCHANGED <<cartVars, authVars, appVars, osVars>>

\* Cancel or the close button: onClose unmounts the CheckoutModal
CloseCheckout ==
  /\ ModalOpen
  /\ showCheckout' = FALSE
  /\ address' = <<>>
  /\ ckLoading' = FALSE
  /\ checkouts' = DetachAll(checkouts)
  /\ UNCHANGED <<orderPosts, paymentPosts, alertMsg>>
  /\ UNCHANGED <<cartVars, authVars, appVars, osVars>>

\* the textarea's onChange
SetAddress(addr) ==
  /\ ModalOpen
  /\ addr # address
  /\ address' = addr
  /\ UNCHANGED <<showCheckout, ckLoading, checkouts, orderPosts, paymentPosts, alertMsg>>
  /\ UNCHANGED <<cartVars, authVars, appVars, osVars>>

\* Pay Now (disabled while loading): handleCheckout up to its first await
\* (orderData is read from user, cart and address and sent; the client keeps
\* no copy of it)
HandleCheckout ==
  /\ ModalOpen
  /\ ~ckLoading
  /\ IF AddressMissing(address)
     THEN /\ alertMsg' = AddressAlert
          /\ UNCHANGED <<ckLoading, checkouts, orderPosts>>
     ELSE /\ Len(checkouts) < MaxCheckouts
          /\ ckLoading' = TRUE
          /\ checkouts' = Append(checkouts, [pc |-> "order", attached |-> TRUE])
          /\ orderPosts' = orderPosts + 1
          /\ UNCHANGED alertMsg
  /\ UNCHANGED <<showCheckout, address, paymentPosts>>
  /\ UNCHANGED <<cartVars, authVars, appVars, osVars>>

\* setLoading(false) of invocation j: dropped once its modal is unmounted
setLoadingFalse(j) ==
  ckLoading' = IF checkouts[j].attached THEN FALSE ELSE ckLoading

\* where an invocation that threw had got to
FailedAt(pc) == IF pc = "order" THEN "order-failed" ELSE "payment-failed"

\* the catch block without the finally block
CheckoutFailedNoFinally(j) ==
  /\ alertMsg' = CheckoutAlert
  /\ UNCHANGED ckLoading
  /\ checkouts' = [checkouts EXCEPT ![j].pc = FailedAt(checkouts[j].pc)]
  /\ UNCHANGED <<orderPosts, paymentPosts, phase>>

\* an awaited POST of invocation j threw: catch, then finally
CheckoutFailed(j) ==
  /\ alertMsg' = CheckoutAlert
  /\ setLoadingFalse(j)
  /\ checkouts' = [checkouts EXCEPT ![j].pc = FailedAt(checkouts[j].pc)]
  /\ UNCHANGED <<orderPosts, paymentPosts, phase>>

\* POST /orders of invocation j completes
OrderReply(j, ok) ==
  /\ phase = "running"
  /\ j \in 1..Len(checkouts)
  /\ checkouts[j].pc = "order"
  /\ IF ok
     THEN /\ checkouts' = [checkouts EXCEPT ![j].pc = "payment"]
          /\ paymentPosts' = paymentPosts + 1
          /\ UNCHANGED <<ckLoading, alertMsg, orderPosts, phase>>
     ELSE CheckoutFailed(j)
  /\ UNCHANGED <<showCheckout, address>>
  /\ UNCHANGED <<hash, sessionId, currentView, restaurantId>>
  /\ UNCHANGED <<cartVars, authVars, osVars>>

\* POST /payments/checkout of invocation j completes: on success
\* window.location.href is assigned checkoutResponse.data.url, which only
\* starts the navigation, and finally setLoading(false) runs in the page
\* that is still there
PaymentReply(j, ok) ==
  /\ phase = "running"
  /\ j \in 1..Len(checkouts)
  /\ checkouts[j].pc = "payment"
  /\ IF ok
     THEN /\ checkouts' = [checkouts EXCEPT ![j].pc = "redirected"]
          /\ setLoadingFalse(j)
          /\ UNCHANGED <<alertMsg, orderPosts, paymentPosts, phase>>
     ELSE CheckoutFailed(j)
  /\ UNCHANGED <<showCheckout, address>>
  /\ UNCHANGED <<hash, sessionId, currentView, restaurantId>>
  /\ UNCHANGED <<cartVars, authVars, osVars>>

(***************************************************************************)
(* Specifications.                                                         *)
(***************************************************************************)
Init ==
  /\ cart = <<>>
  /\ currentRestaurant = Null
  /\ user = NoUser
  /\ authLoading = TRUE
  /\ storage \in StoredStates
  /\ loginPending = FALSE
  /\ phase = "init"
  /\ hash \in Tokens
  /\ sessionId \in {Null, "cs_1"}
  /\ currentView = "home"
  /\ restaurantId = Null
  /\ showCheckout = FALSE
  /\ address = <<>>
  /\ ckLoading = FALSE
  /\ checkouts = <<>>
  /\ orderPosts = 0
  /\ paymentPosts = 0
  /\ alertMsg = Null
  /\ osCount = 0
  /\ osLive = [i \in Instances |-> FALSE]
  /\ paymentStatus = [i \in Instances |-> "checking"]
  /\ pollPc = [i \in Instances |-> "idle"]
  /\ attempts = [i \in Instances |-> 0]
  /\ queries = [i \in Instances |-> 0]
  /\ replies = [i \in Instances |-> <<>>]

\* the Cart Engine alone
NextCart ==
  \/ \E item \in Menu, q \in QtyArgs : AddItem(item, q)
  \/ \E id \in FoodIds : RemoveItem(id)
  \/ \E id \in FoodIds, q \in QtyArgs : SetQuantity(id, q)
  \/ Clear

SpecCart == Init /\ [][NextCart]_vars

\* a page load with its restored session: the router, logout, the menu's
\* Add to Cart and the polling machine
NextPoll ==
  \/ Startup
  \/ Logout
  \/ \E token \in TokensPoll : HashChange(token)
  \/ \E item \in MenuShort : ClickAddToCart(item)
  \/ \E i \in Instances, r \in Replies : StatusReply(i, r)
  \/ \E i \in Instances : TimerFire(i)

SpecPoll == Init /\ [][NextPoll]_vars

\* a page load with its restored session: the router, logout, the menu's
\* Add to Cart and the checkout submission
NextCheckout ==
  \/ Startup
  \/ Logout
  \/ \E token \in TokensCheckout : HashChange(token)
  \/ \E item \in MenuShort : ClickAddToCart(item)
  \/ OpenCheckout
  \/ CloseCheckout
  \/ \E addr \in Addresses : SetAddress(addr)
  \/ HandleCheckout
  \/ \E j \in 1..MaxCheckouts, ok \in BOOLEAN : OrderReply(j, ok)
  \/ \E j \in 1..MaxCheckouts, ok \in BOOLEAN : PaymentReply(j, ok)
  \/ Unload

SpecCheckout == Init /\ [][NextCheckout]_vars

\* the session store and the router: page load, login, logout, navigation
NextSession ==
  \/ Startup
  \/ LoginSubmit
  \/ \E u \in Users : LoginOk(u)
  \/ LoginFail
  \/ Logout
  \/ \E token \in Tokens : HashChange(token)

SpecSession == Init /\ [][NextSession]_vars

\* the browser runs a due timer and delivers a completed request
LivePoll ==
  /\ SpecPoll
  /\ \A i \in Instances :
       /\ WF_vars(TimerFire(i))
       /\ WF_vars(\E r \in Replies : StatusReply(i, r))

(***************************************************************************)
(* Properties of the Cart Engine.                                          *)
(***************************************************************************)
\* C1: after every cart operation, whatever the restaurants of the items
\* added, all lines of the cart carry one restaurant id (that of the cart's
\* current restaurant).
C1_SingleRestaurant ==
  /\ \A j, k \in 1..Len(cart) : cart[j].restaurant_id = cart[k].restaurant_id
  /\ \A k \in 1..Len(cart) : cart[k].restaurant_id = currentRestaurant

\* a cart of two lines, built by two addItem calls
C1_Witness ==
  /\ Len(cart) = 2
  /\ currentRestaurant = "R1"

\* the sum of price * quantity over the lines, taken from the last line down
RECURSIVE LineSum(_, _)
LineSum(lines, n) ==
  IF n = 0 THEN 0
  ELSE LineSum(lines, n - 1) + lines[n].price * lines[n].quantity

\* C10: in every state the cart operations reach, total() is the sum of
\* unitPrice * quantity over the current lines, and it is 0 on the empty cart.
C10_TotalCorrect ==
  /\ getCartTotal(cart) = LineSum(cart, Len(cart))
  /\ cart = <<>> => getCartTotal(cart) = 0

\* scenario A: item 1 (price 10) once and item 2 (price 5) twice: total 20
C10_Witness ==
  /\ Len(cart) = 2
  /\ cart[1].food_item_id = 1 /\ cart[1].quantity = 1
  /\ cart[2].food_item_id = 2 /\ cart[2].quantity = 2
  /\ getCartTotal(cart) = 20

(***************************************************************************)
(* Properties of the polling machine.                                      *)
(***************************************************************************)
AllUnresolved(i) == \A m \in 1..Len(replies[i]) : replies[i][m] = Unresolved
Polling(i) == pollPc[i] \in {"awaiting", "scheduled"}

C2_Bounded ==
  \A i \in Instances :
    /\ queries[i] <= 5
    /\ (pollPc[i] = "done" /\ AllUnresolved(i)) =>
          /\ queries[i] = 5
          /\ Len(replies[i]) = 5
          /\ attempts[i] = 5
          /\ osLive[i] => paymentStatus[i] = "timeout"

\* C2: a chain issues at most 5 status queries; a chain whose queries all
\* succeed unresolved ends after exactly 5 of them, with the mounted machine
\* in Timeout; and no chain polls forever.
C2_PollingBoundary ==
  /\ []C2_Bounded
  /\ \A i \in Instances : Polling(i) ~> (pollPc[i] = "done")

\* five unresolved replies, and the mounted machine timed out
C2_Witness ==
  \E i \in Instances :
    /\ osLive[i]
    /\ paymentStatus[i] = "timeout"
    /\ queries[i] = 5
    /\ AllUnresolved(i)

\* C3: once a machine is in Success, Failed, Timeout or Error, its state
\* stays, its chain is over, and it issues no query and schedules no poll.
C3_TerminalStable ==
  [][\A i \in Instances :
       paymentStatus[i] \in Terminal =>
          /\ pollPc[i] = "done"
          /\ paymentStatus'[i] = paymentStatus[i]
          /\ queries'[i] = queries[i]
          /\ pollPc'[i] = "done"]_vars

\* a machine that resolved to Failed on its second query
C3_Witness ==
  \E i \in Instances :
    /\ paymentStatus[i] = "failed"
    /\ queries[i] = 2

\* C4 (as claimed): after the screen is torn down with a re-poll scheduled,
\* the scheduled call does not run: no query is issued by that chain.
C4_NoPollAfterTeardown ==
  [][\A i \in Instances :
       (i <= osCount /\ ~osLive[i] /\ pollPc[i] = "scheduled") =>
          /\ pollPc'[i] = "scheduled"
          /\ queries'[i] = queries[i]]_vars

FirstResolvedAt(i, k) ==
  /\ k \in 1..Len(replies[i])
  /\ replies[i][k].ok
  /\ replies[i][k].payment_status = "paid" \/ replies[i][k].status = "expired"
  /\ \A m \in 1..(k - 1) : replies[i][m] = Unresolved

\* C5: when the k-th reply is the first to report paid, or expired and not
\* paid, the chain is over after exactly k queries, and the mounted machine
\* is in Success, respectively Failed.
C5_DecisionRule ==
  \A i \in Instances : \A k \in 1..5 :
    FirstResolvedAt(i, k) =>
      /\ pollPc[i] = "done"
      /\ queries[i] = k
      /\ Len(replies[i]) = k
      /\ osLive[i] =>
           paymentStatus[i] = IF replies[i][k].payment_status = "paid"
                              THEN "success" ELSE "failed"

\* scenario D: expired on the 3rd query, Failed after exactly 3 queries
C5_Witness ==
  \E i \in Instances :
    /\ osLive[i]
    /\ FirstResolvedAt(i, 3)
    /\ replies[i][3].payment_status = "unpaid"
    /\ paymentStatus[i] = "failed"
    /\ queries[i] = 3

\* C6: a transport failure on a query ends the chain at once, with no retry,
\* and puts the mounted machine in Error (not Timeout), whatever the attempt.
C6_TransportFailure ==
  \A i \in Instances : \A k \in 1..Len(replies[i]) :
    ~replies[i][k].ok =>
      /\ pollPc[i] = "done"
      /\ k = Len(replies[i])
      /\ queries[i] = k
      /\ attempts[i] = k - 1
      /\ osLive[i] => paymentStatus[i] = "error"

\* the fifth query fails: Error, not Timeout
C6_Witness ==
  \E i \in Instances :
    /\ osLive[i]
    /\ Len(replies[i]) = 5
    /\ ~replies[i][5].ok
    /\ paymentStatus[i] = "error"

C7_ClearedWhileShown ==
  \A i \in Instances :
    (osLive[i] /\ sessionId # Null) =>
       /\ cart = <<>>
       /\ currentRestaurant = Null
       /\ paymentStatus[i] \in {"checking"} \cup Terminal
       /\ replies[i] = <<>> => (paymentStatus[i] = "checking" /\ queries[i] = 1)

\* C7: entering OrderSuccess with a session id leaves the machine in
\* Checking with its first query issued and the cart cleared; the cart stays
\* cleared while the screen is shown, and no step of the polling chain
\* changes the cart.
C7_CartClearedOnEntry ==
  /\ []C7_ClearedWhileShown
  /\ [][(osCount' = osCount /\ pollPc' # pollPc) => UNCHANGED cartVars]_vars

\* the machine reached a terminal state on screen, the cart is empty
C7_Witness ==
  \E i \in Instances :
    /\ osLive[i]
    /\ sessionId # Null
    /\ paymentStatus[i] = "timeout"
    /\ cart = <<>>

(***************************************************************************)
(* Properties of the checkout submission.                                  *)
(***************************************************************************)
Submissions == 1..MaxCheckouts
InFlight(j) == j \in 1..Len(checkouts) /\ checkouts[j].pc \in {"order", "payment"}
FailStep(j) == InFlight(j) /\ checkouts'[j].pc \in {"order-failed", "payment-failed"}
PaymentRequested(j) ==
  j \in 1..Len(checkouts)
  /\ checkouts[j].pc \in {"payment", "payment-failed", "redirected"}

\* payment-session requests are issued only for orders that were created
C8_NoPaymentAfterOrderFailure ==
  paymentPosts = Cardinality({ j \in Submissions : PaymentRequested(j) })

\* C8: a failed order creation is followed by no payment-session request;
\* the step in which either call fails alerts, issues no request, leaves cart
\* and session alone and takes the mounted modal from loading back to idle;
\* and no step changes cart or session between a submission and its outcome
\* while its modal stays up.
C8_SubmissionFailure ==
  /\ []C8_NoPaymentAfterOrderFailure
  /\ [][\A j \in Submissions :
          FailStep(j) =>
            /\ UNCHANGED <<cart, currentRestaurant, user, storage>>
            /\ alertMsg' = CheckoutAlert
            /\ orderPosts' = orderPosts
            /\ paymentPosts' = paymentPosts
            /\ phase' = "running"
            /\ checkouts[j].attached => (ckLoading /\ ~ckLoading')]_vars
  /\ [][\A j \in Submissions :
          (InFlight(j) /\ checkouts[j].attached /\ checkouts'[j].attached) =>
            UNCHANGED <<cart, currentRestaurant, user, storage>>]_vars

\* the order creation failed, then a retry's payment-session creation failed:
\* the modal is idle again, the cart still holds its lines
C8_Witness ==
  /\ Len(checkouts) = 2
  /\ checkouts[1].pc = "order-failed"
  /\ checkouts[2].pc = "payment-failed"
  /\ checkouts[2].attached
  /\ ModalOpen
  /\ ~ckLoading
  /\ alertMsg = CheckoutAlert
  /\ paymentPosts = 1

\* empty, or nothing but white space
Blank(addr) == \A k \in 1..Len(addr) : addr[k] = " "

\* C9: with a blank delivery address in the form, no step issues an
\* order-creation request or starts a submission, and Pay Now only alerts:
\* no request, the modal idle, the cart unchanged.
C9_EmptyAddressRejected ==
  /\ [][(ModalOpen /\ Blank(address)) =>
          /\ orderPosts' = orderPosts
          /\ Len(checkouts') = Len(checkouts)
          /\ ~ckLoading => ~ckLoading']_vars
  /\ [][(HandleCheckout /\ Blank(address)) =>
          /\ alertMsg' = AddressAlert
          /\ UNCHANGED <<cart, currentRestaurant, ckLoading, checkouts,
                         orderPosts, paymentPosts, showCheckout, phase>>]_vars

\* Pay Now was clicked on a white-space address: alerted, nothing sent
C9_Witness ==
  /\ ModalOpen
  /\ address = <<" ">>
  /\ alertMsg = AddressAlert
  /\ orderPosts = 0
  /\ ~ckLoading

(***************************************************************************)
(* Properties of addItem, removeItem and setQuantity.                      *)
(***************************************************************************)
\* the line addItem(item, q) makes for an item not yet in the cart
NewLine(item, q) ==
  [food_item_id  |-> item.id,
   quantity      |-> q,
   name          |-> item.name,
   price         |-> item.price,
   restaurant_id |-> item.restaurant_id]

\* C11: addItem(item, q) on a non-empty cart of another restaurant leaves
\* exactly one line, for item with quantity q, and item's restaurant as the
\* current one.
C11_RestaurantSwitch ==
  [][\A item \in Menu, q \in QtyArgs :
       (AddItem(item, q) /\ cart # <<>>
          /\ currentRestaurant # item.restaurant_id) =>
         /\ cart' = <<NewLine(item, q)>>
         /\ currentRestaurant' = item.restaurant_id
         /\ \A k \in 1..Len(cart) :
              \A n \in 1..Len(cart') :
                 cart'[n].food_item_id # cart[k].food_item_id]_vars

\* scenario B: the cart holds the one line of item 3, restaurant R2
C11_Witness ==
  /\ Len(cart) = 1
  /\ cart[1].food_item_id = 3
  /\ cart[1].restaurant_id = "R2"
  /\ currentRestaurant = "R2"

\* no two lines of the cart are for the same food item
C12_UniqueIds ==
  \A j, k \in 1..Len(cart) :
    cart[j].food_item_id = cart[k].food_item_id => j = k

\* C12: addItem(item, q) for the cart's own restaurant adds q to the line of
\* item when there is one, leaving length and order alone, and else appends
\* one line with quantity q; no two lines ever share a food item id.
C12_AddSameRestaurant ==
  /\ []C12_UniqueIds
  /\ [][\A item \in Menu, q \in QtyArgs :
          (AddItem(item, q)
             /\ (currentRestaurant = Null
                   \/ currentRestaurant = item.restaurant_id)) =>
            IF \E k \in 1..Len(cart) : cart[k].food_item_id = item.id
            THEN /\ Len(cart') = Len(cart)
                 /\ \A k \in 1..Len(cart) :
                      cart'[k] =
                        IF cart[k].food_item_id = item.id
                        THEN [cart[k] EXCEPT !.quantity = cart[k].quantity + q]
                        ELSE cart[k]
            ELSE cart' = cart \o <<NewLine(item, q)>>]_vars

\* item 1 was added twice, then item 2 appended after it
C12_Witness ==
  /\ Len(cart) = 2
  /\ cart[1].food_item_id = 1
  /\ cart[1].quantity = 2
  /\ cart[2].food_item_id = 2

\* the lines of the cart other than the one for id, in their order
WithoutLine(lines, id) ==
  SelectSeq(lines, LAMBDA l : l.food_item_id # id)

\* C13: setQuantity(id, q) with q <= 0 is a removeItem(id) step: the line of
\* id is gone if there was one, the cart is unchanged if there was none, and
\* the current restaurant is unchanged; with q > 0 the line of id gets quantity
\* exactly q and nothing else changes.
C13_QuantityFloor ==
  [][\A id \in FoodIds, q \in QtyArgs :
       SetQuantity(id, q) =>
         /\ currentRestaurant' = currentRestaurant
         /\ IF q <= 0
            THEN /\ RemoveItem(id)
                 /\ cart' = WithoutLine(cart, id)
                 /\ (~HasLine(cart, id) => cart' = cart)
                 /\ ~HasLine(cart', id)
            ELSE /\ Len(cart') = Len(cart)
                 /\ \A k \in 1..Len(cart) :
                      cart'[k] =
                        IF cart[k].food_item_id = id
                        THEN [cart[k] EXCEPT !.quantity = q]
                        ELSE cart[k]]_vars

\* the last line was taken out by a quantity <= 0: the cart is empty and the
\* current restaurant is still set
C13_Witness ==
  /\ cart = <<>>
  /\ currentRestaurant = "R1"

\* C17: every line of the cart has quantity >= 1.
C17_QuantityAtLeastOne ==
  \A k \in 1..Len(cart) : cart[k].quantity >= 1

(***************************************************************************)
(* Properties of the Session Store and the View Router.                    *)
(***************************************************************************)
Views == {"home", "restaurant", "orders", "order-success"}

\* a screen behind the gate is rendered: one of the views, an OrderSuccess
\* instance, or the CheckoutModal
C14_BehindGate ==
  \/ Shown \in Views
  \/ \E i \in Instances : osLive[i]
  \/ ModalOpen

\* C14: a screen other than the login screen is shown only with a non-null
\* user; a logout leads to the login screen, and the login screen is left only
\* by the step of a successful login.
C14_SessionGate ==
  /\ [](C14_BehindGate => user # NoUser)
  /\ [][(user # NoUser /\ user' = NoUser) =>
          (Shown' = "login" /\ storage' = Absent)]_vars
  /\ [][(Shown = "login" /\ Shown' # "login") =>
          (loginPending /\ user' \in Users /\ storage' = Stored(user'))]_vars

\* the login screen after a logout: the view is still the 'home' that the
\* login before it selected, under the token 'orders'
C14_Witness ==
  /\ Shown = "login"
  /\ user = NoUser
  /\ storage = Absent
  /\ currentView = "home"
  /\ hash = <<"orders">>

\* C15: once the mount effects have run over a malformed persisted identity,
\* there is no user, loading has ended and the login screen is shown.
C15_RestoreNeverFails ==
  (phase # "init" /\ storage = Malformed) =>
    (user = NoUser /\ ~authLoading /\ Shown = "login")

\* C18: with a user, the view and the restaurant id are those that
\* handleHashChange resolves from the current token.
C18_ScreenFollowsToken ==
  (phase = "running" /\ ~authLoading /\ user # NoUser) =>
    /\ Shown = ResolveView(hash)
    /\ (Shown = "restaurant" => restaurantId = hash[2])

(***************************************************************************)
(* Properties of the checkout flow after the payment session was created.  *)
(***************************************************************************)
\* invocation j got both replies, its modal is mounted and the page is there
AwaitingPaymentRedirect(j) ==
  /\ phase = "running"
  /\ j \in 1..Len(checkouts)
  /\ checkouts[j].pc = "redirected"
  /\ checkouts[j].attached

\* no order-creation request is issued from a modal whose submission got
\* both replies
C16_NoSecondOrder ==
  [][\A j \in Submissions :
       AwaitingPaymentRedirect(j) => orderPosts' = orderPosts]_vars

\* C16: once both calls of a submission have succeeded, its modal does not
\* go back to idle (Pay Now stays disabled) and no further order-creation
\* request is issued from it.
C16_RedirectTerminal ==
  /\ [](\A j \in Submissions : AwaitingPaymentRedirect(j) => ckLoading)
  /\ C16_NoSecondOrder

====
